---- MODULE Spec2Model ----
(***************************************************************************)
(* Chat-session lifecycle of the LLM orchestrator service:                 *)
(*   clients/openai_client.py  OpenAIChatClient (the in-memory store)      *)
(*   routes/openai_chat.py     POST/GET/DELETE /chat/openai                *)
(*   main.py                   lifespan (client initialisation)            *)
(* The service runs on one asyncio event loop: a handler runs atomically   *)
(* up to its next await.  The only await of the core is the provider call  *)
(* in chat_completion, so a chat turn is two steps (ChatBegin, then        *)
(* ChatReturn or ChatRaise) and every other operation is one step.         *)
(***************************************************************************)
EXTENDS Integers, Sequences, FiniteSets, TLC

\* ---------------------------------------------------------------- bounds
MaxUuid  == 1   \* uuid4 values the run may draw
MaxTurns == 2   \* chat requests the run may issue
MaxClock == 1   \* readings of datetime.utcnow() are 0..MaxClock
MaxCalls == 2   \* calls of client methods that no route reaches

\* ------------------------------------------------------- values and types
\* Strings are sequences of one-character strings; None is a value no
\* string of the model equals.
None    == <<"None">>
NoneId  == -1                 \* session_id = None
EmptyId == 0                  \* session_id = ""
NamedIds == {1}               \* the session id callers choose ("s1")
UuidIds  == 2..(1 + MaxUuid)  \* the values uuid4 returns, in order
TurnIds  == 1..MaxTurns

USER      == "USER"
ASSISTANT == "ASSISTANT"
SYSTEM    == "SYSTEM"
MessageRole == {USER, ASSISTANT, SYSTEM}

RoleValue(role) ==
    CASE role = USER      -> "user"
      [] role = ASSISTANT -> "assistant"
      [] role = SYSTEM    -> "system"

UserTexts  == {<<>>, <<"q">>}
Prompts    == {None, <<>>, <<"p">>}
ReplyTexts == {<<"r">>, <<" ", "r">>}

\* ChatRequest.max_tokens and ChatRequest.temperature: the declared bounds
\* and defaults.  A temperature is counted in tenths (0.7 is 7, 2.0 is 20).
MaxTokensGe        == 1
MaxTokensLe        == 4000
MaxTokensDefault   == 150
TemperatureGe      == 0
TemperatureLe      == 20
TemperatureDefault == 7
\* list_sessions: the number of characters of a message its preview takes
PreviewLen == 50
\* a message longer than that
LongText == [n \in 1..(PreviewLen + 1) |-> "x"]
\* the values requests carry: the defaults, the bounds and their neighbours
MaxTokensValues   == {MaxTokensGe - 1, MaxTokensGe, MaxTokensDefault,
                      MaxTokensLe, MaxTokensLe + 1}
TemperatureValues == {TemperatureGe - 1, TemperatureGe, TemperatureDefault,
                      TemperatureLe, TemperatureLe + 1}

\* Python truthiness of an Optional[str]
Truthy(s)   == s # None /\ s # <<>>
TruthyId(i) == i # NoneId /\ i # EmptyId

\* str.strip()
RECURSIVE lstrip(_)
lstrip(s) == IF s # <<>> /\ Head(s) = " " THEN lstrip(Tail(s)) ELSE s
RECURSIVE rstrip(_)
rstrip(s) ==
    IF s # <<>> /\ s[Len(s)] = " " THEN rstrip(SubSeq(s, 1, Len(s) - 1)) ELSE s
strip(s) == rstrip(lstrip(s))

\* datetime.isoformat()
isoformat(t) == [iso |-> t]

ChatMessage(role, content, now) ==
    [role |-> role, content |-> content, timestamp |-> now]

ChatSession(session_id, now) ==
    [session_id |-> session_id, messages |-> <<>>,
     created_at |-> now, updated_at |-> now]

\* ------------------------------------------------------------------ state
VARIABLES
    lifespan_pc,         \* "startup" until lifespan reaches its yield
    openai_chat_client,  \* routes.openai_chat.openai_chat_client: "None" or "client"
    sessions,            \* OpenAIChatClient.sessions: dict id -> ChatSession
    uuid_count,          \* uuid4 values drawn so far
    clock,               \* the current reading of datetime.utcnow()
    turn,                \* one record per POST /chat/openai request
    store_calls,         \* calls made so far of client methods no route reaches
    last,                \* the latest response to a call that is not a chat turn
    seen                 \* history: per id, the first and the latest context that
                         \* get_session_context returned since that id's session
                         \* last changed (<<>> when none did)

vars == <<lifespan_pc, openai_chat_client, sessions, uuid_count, clock, turn,
          store_calls, last, seen>>

\* ------------------------------------------------------- the dict sessions
EmptyDict == [i \in {} |-> 0]
Put(S, k, v) == [i \in (DOMAIN S) \cup {k} |-> IF i = k THEN v ELSE S[i]]
Del(S, k)    == [i \in (DOMAIN S) \ {k} |-> S[i]]

\* uuid4 is taken to return a value never seen before
IssuedUuids == 2..(1 + uuid_count)
uuid4       == 2 + uuid_count
AllIds      == NamedIds \cup UuidIds
\* ids an HTTP caller can name: the chosen ones and the uuids a response gave
ReturnedIds == {turn[t].session_id : t \in {u \in TurnIds : turn[u].status = 200}}
KnownIds    == NamedIds \cup (ReturnedIds \cap UuidIds)
\* ids a caller inside the process can name (create_session returns the
\* uuid, list_sessions shows every key)
StoreIds    == NamedIds \cup IssuedUuids

\* -------------------------------------------- OpenAIChatClient, as operators
\* a variant that keeps the session an id already has
create_session_keeps(S, session_id, system_prompt, now, fresh) ==
    LET sid     == IF session_id = NoneId THEN fresh ELSE session_id
        session == ChatSession(sid, now)
        seeded  == IF Truthy(system_prompt)
                   THEN [session EXCEPT !.messages =
                            Append(@, ChatMessage(SYSTEM, system_prompt, now))]
                   ELSE session
    IN  [sessions |-> IF sid \in DOMAIN S THEN S ELSE Put(S, sid, seeded),
         session_id |-> sid]

\* create_session: the new dict and the id returned
create_session(S, session_id, system_prompt, now, fresh) ==
    LET sid     == IF session_id = NoneId THEN fresh ELSE session_id
        session == ChatSession(sid, now)
        seeded  == IF Truthy(system_prompt)
                   THEN [session EXCEPT !.messages =
                            Append(@, ChatMessage(SYSTEM, system_prompt, now))]
                   ELSE session
    IN  [sessions |-> Put(S, sid, seeded), session_id |-> sid]

get_session(S, session_id) == session_id \in DOMAIN S

\* a variant that empties the whole dict
delete_session_clears(S, session_id) ==
    IF session_id \in DOMAIN S
    THEN [sessions |-> EmptyDict, ok |-> TRUE]
    ELSE [sessions |-> S, ok |-> FALSE]

delete_session(S, session_id) ==
    IF session_id \in DOMAIN S
    THEN [sessions |-> Del(S, session_id), ok |-> TRUE]
    ELSE [sessions |-> S, ok |-> FALSE]

\* a variant that stores the new message in place of the old ones
add_message_to_session_overwrites(S, session_id, role, content, now) ==
    IF session_id \notin DOMAIN S
    THEN [sessions |-> S, ok |-> FALSE]
    ELSE [sessions |->
            [S EXCEPT ![session_id] =
                [@ EXCEPT !.messages  = <<ChatMessage(role, content, now)>>,
                          !.updated_at = now]],
          ok |-> TRUE]

\* a variant of list_sessions that previews the first message of a session
list_sessions_previews_first(S) ==
    { [session_id         |-> i,
       created_at         |-> S[i].created_at,
       updated_at         |-> S[i].updated_at,
       message_count      |-> Len(S[i].messages),
       user_message_count |-> Len(SelectSeq(S[i].messages, LAMBDA m : m.role = USER)),
       last_message_preview |->
           IF S[i].messages # <<>>
           THEN SubSeq(S[i].messages[1].content, 1,
                       IF Len(S[i].messages[1].content) < PreviewLen
                       THEN Len(S[i].messages[1].content) ELSE PreviewLen)
                \o <<".", ".", ".">>
           ELSE None] : i \in DOMAIN S }

\* list_sessions: one summary per key of the dict (the order of the list,
\* which is the dict's insertion order, is not kept: the summaries are a set).
\* content[:50] + "..." is the slice followed by three dots.
list_sessions(S) ==
    { [session_id         |-> i,
       created_at         |-> S[i].created_at,
       updated_at         |-> S[i].updated_at,
       message_count      |-> Len(S[i].messages),
       user_message_count |-> Len(SelectSeq(S[i].messages, LAMBDA m : m.role = USER)),
       last_message_preview |->
           IF S[i].messages # <<>>
           THEN SubSeq(S[i].messages[Len(S[i].messages)].content, 1,
                       IF Len(S[i].messages[Len(S[i].messages)].content) < PreviewLen
                       THEN Len(S[i].messages[Len(S[i].messages)].content)
                       ELSE PreviewLen)
                \o <<".", ".", ".">>
           ELSE None] : i \in DOMAIN S }

\* a variant that puts the new message first
add_message_to_session_prepends(S, session_id, role, content, now) ==
    IF session_id \notin DOMAIN S
    THEN [sessions |-> S, ok |-> FALSE]
    ELSE [sessions |->
            [S EXCEPT ![session_id] =
                [@ EXCEPT !.messages  = <<ChatMessage(role, content, now)>> \o @,
                          !.updated_at = now]],
          ok |-> TRUE]

add_message_to_session(S, session_id, role, content, now) ==
    IF ~get_session(S, session_id)
    THEN [sessions |-> S, ok |-> FALSE]
    ELSE [sessions |->
            [S EXCEPT ![session_id] =
                [@ EXCEPT !.messages  = Append(@, ChatMessage(role, content, now)),
                          !.updated_at = now]],
          ok |-> TRUE]

get_session_messages_for_api(S, session_id) ==
    IF ~get_session(S, session_id)
    THEN <<>>
    ELSE [i \in 1..Len(S[session_id].messages) |->
            [role    |-> RoleValue(S[session_id].messages[i].role),
             content |-> S[session_id].messages[i].content]]

\* a variant that stamps every message with the time of the call
get_session_context_now(S, session_id) ==
    IF session_id \notin DOMAIN S
    THEN <<>>
    ELSE << [session_id    |-> session_id,
             message_count |-> Len(S[session_id].messages),
             created_at    |-> S[session_id].created_at,
             updated_at    |-> S[session_id].updated_at,
             messages      |->
                [i \in 1..Len(S[session_id].messages) |->
                    [role      |-> RoleValue(S[session_id].messages[i].role),
                     content   |-> S[session_id].messages[i].content,
                     timestamp |-> isoformat(clock)]]] >>

\* get_session_context: <<>> for None, else <<the dict>>
get_session_context(S, session_id) ==
    IF ~get_session(S, session_id)
    THEN <<>>
    ELSE << [session_id    |-> session_id,
             message_count |-> Len(S[session_id].messages),
             created_at    |-> S[session_id].created_at,
             updated_at    |-> S[session_id].updated_at,
             messages      |->
                [i \in 1..Len(S[session_id].messages) |->
                    [role      |-> RoleValue(S[session_id].messages[i].role),
                     content   |-> S[session_id].messages[i].content,
                     timestamp |-> isoformat(S[session_id].messages[i].timestamp)]]] >>

RECURSIVE SystemOnly(_)
SystemOnly(msgs) ==
    IF msgs = <<>> THEN <<>>
    ELSE IF Head(msgs).role = SYSTEM
         THEN <<Head(msgs)>> \o SystemOnly(Tail(msgs))
         ELSE SystemOnly(Tail(msgs))

\* a variant that keeps no message, whatever keep_system says
clear_session_messages_drops_all(S, session_id, keep_system, now) ==
    IF session_id \notin DOMAIN S
    THEN [sessions |-> S, ok |-> FALSE]
    ELSE [sessions |->
            [S EXCEPT ![session_id] =
                [@ EXCEPT !.messages = <<>>, !.updated_at = now]],
          ok |-> TRUE]

clear_session_messages(S, session_id, keep_system, now) ==
    IF ~get_session(S, session_id)
    THEN [sessions |-> S, ok |-> FALSE]
    ELSE [sessions |->
            [S EXCEPT ![session_id] =
                [@ EXCEPT !.messages  = IF keep_system THEN SystemOnly(@) ELSE <<>>,
                          !.updated_at = now]],
          ok |-> TRUE]

\* a variant that appends the user message to every session of the store
chat_completion_begin_all(S, session_id, user_message, now) ==
    LET ensured  == IF session_id \notin DOMAIN S
                    THEN create_session(S, session_id, None, now, session_id).sessions
                    ELSE S
        appended == [i \in DOMAIN ensured |->
                        [ensured[i] EXCEPT
                            !.messages  = Append(@, ChatMessage(USER, user_message, now)),
                            !.updated_at = now]]
    IN  [sessions         |-> appended,
         messages_for_api |-> get_session_messages_for_api(appended, session_id)]

\* chat_completion up to its await: the session is ensured, the user message
\* appended and the transcript for the provider built
chat_completion_begin(S, session_id, user_message, now) ==
    LET ensured  == IF session_id \notin DOMAIN S
                    THEN create_session(S, session_id, None, now, session_id).sessions
                    ELSE S
        appended == add_message_to_session(ensured, session_id, USER, user_message, now).sessions
    IN  [sessions         |-> appended,
         messages_for_api |-> get_session_messages_for_api(appended, session_id)]

\* a variant that creates the session again when it is gone at the reply
chat_completion_end_resurrects(S, session_id, content, now) ==
    LET text     == strip(content)
        ensured  == IF session_id \notin DOMAIN S
                    THEN create_session(S, session_id, None, now, session_id).sessions
                    ELSE S
        appended == add_message_to_session(ensured, session_id, ASSISTANT, text, now).sessions
    IN  [sessions      |-> appended,
         response      |-> text,
         message_count |-> Len(appended[session_id].messages)]

\* chat_completion after a reply: the stripped reply is appended and counted
chat_completion_end(S, session_id, content, now) ==
    LET text     == strip(content)
        appended == add_message_to_session(S, session_id, ASSISTANT, text, now).sessions
    IN  [sessions      |-> appended,
         response      |-> text,
         message_count |-> IF get_session(appended, session_id)
                           THEN Len(appended[session_id].messages) ELSE 0]

\* ------------------------------------------------------------- the routes
\* routes/openai_chat.py never imports openai, so evaluating the handler's
\* "except openai.APIError" raises NameError, which leaves the handler.
openai_bound_in_routes == FALSE

\* a variant that answers success
chat_error_status_ok(exc) == 200

chat_error_status(exc) ==
    IF ~openai_bound_in_routes THEN 500
    ELSE IF exc = "APIError" THEN 502 ELSE 500

\* a variant that seeds the system prompt into an existing session too
resolve_session_reseeds(S, request, now, fresh) ==
    IF ~TruthyId(request.session_id)
    THEN create_session(S, NoneId, request.system_prompt, now, fresh)
    ELSE IF request.session_id \notin DOMAIN S
         THEN create_session(S, request.session_id, request.system_prompt, now, fresh)
         ELSE [sessions |->
                  IF Truthy(request.system_prompt)
                  THEN add_message_to_session(S, request.session_id, SYSTEM,
                                              request.system_prompt, now).sessions
                  ELSE S,
               session_id |-> request.session_id]

\* the session the chat route resolves, before chat_completion is called
resolve_session(S, request, now, fresh) ==
    IF ~TruthyId(request.session_id)
    THEN create_session(S, NoneId, request.system_prompt, now, fresh)
    ELSE IF ~get_session(S, request.session_id)
         THEN create_session(S, request.session_id, request.system_prompt, now, fresh)
         ELSE [sessions |-> S, session_id |-> request.session_id]

\* a variant that forgets the upper bound of max_tokens
ChatRequest_valid_no_le(request) ==
    /\ request.max_tokens >= MaxTokensGe
    /\ request.temperature >= TemperatureGe /\ request.temperature <= TemperatureLe

\* the Field(ge=..., le=...) constraints of ChatRequest, which the framework
\* checks before it calls the handler (a request that fails is answered 422)
ChatRequest_valid(request) ==
    /\ request.max_tokens >= MaxTokensGe /\ request.max_tokens <= MaxTokensLe
    /\ request.temperature >= TemperatureGe /\ request.temperature <= TemperatureLe

\* requests that leave max_tokens and temperature at their defaults
ChatRequests ==
    [message : UserTexts, session_id : {NoneId, EmptyId} \cup KnownIds,
     system_prompt : Prompts, max_tokens : {MaxTokensDefault},
     temperature : {TemperatureDefault}]

\* those, and requests that set them too
AnyChatRequests ==
    ChatRequests \cup
    [message : {<<"q">>}, session_id : {NoneId} \cup KnownIds,
     system_prompt : {<<"p">>}, max_tokens : MaxTokensValues,
     temperature : TemperatureValues]

\* provider_calls counts the turn's calls of chat.completions.create
IdleTurn ==
    [pc |-> "idle", session_id |-> NoneId, messages_for_api |-> <<>>,
     status |-> 0, response |-> <<>>, message_count |-> 0, provider_calls |-> 0]

Response(op, session_id, status, body) ==
    [op |-> op, session_id |-> session_id, status |-> status, body |-> body]

NoResponse == Response("none", NoneId, 0, <<>>)

\* ----------------------------------------------------------------- history
Changed(i, S, S2) ==
    \/ (i \in DOMAIN S) # (i \in DOMAIN S2)
    \/ i \in DOMAIN S /\ i \in DOMAIN S2 /\ S[i] # S2[i]

\* the contexts seen for one id, with one more returned (None is not kept)
Record(contexts, context) ==
    IF context = <<>> THEN contexts
    ELSE IF contexts = <<>> THEN context
    ELSE <<contexts[1], context[1]>>

SeenAfter(S2) == [i \in AllIds |-> IF Changed(i, sessions, S2) THEN <<>> ELSE seen[i]]

Init ==
    /\ lifespan_pc = "startup"
    /\ openai_chat_client = "None"
    /\ sessions = EmptyDict
    /\ uuid_count = 0
    /\ clock = 0
    /\ turn = [t \in TurnIds |-> IdleTurn]
    /\ store_calls = 0
    /\ last = NoResponse
    /\ seen = [i \in AllIds |-> <<>>]

\* lifespan: OpenAIChatClient() either succeeds or raises (no API key)
Startup(ok) ==
    /\ lifespan_pc = "startup"
    /\ lifespan_pc' = "running"
    /\ openai_chat_client' = IF ok THEN "client" ELSE "None"
    /\ UNCHANGED <<sessions, uuid_count, clock, turn, store_calls, last, seen>>

\* time passes
Tick ==
    /\ clock < MaxClock
    /\ clock' = clock + 1
    /\ UNCHANGED <<lifespan_pc, openai_chat_client, sessions, uuid_count, turn, store_calls,
                 last, seen>>

NextTurn(t) == turn[t].pc = "idle" /\ \A u \in 1..(t - 1) : turn[u].pc # "idle"

\* POST /chat/openai, up to the await of the provider call
ChatBegin(t, request) ==
    /\ lifespan_pc = "running"
    /\ NextTurn(t)
    /\ IF ~ChatRequest_valid(request)
       THEN /\ turn' = [turn EXCEPT ![t] = [IdleTurn EXCEPT !.pc = "done", !.status = 422]]
            /\ UNCHANGED <<sessions, uuid_count>>
       ELSE IF openai_chat_client = "None"
       THEN /\ turn' = [turn EXCEPT ![t] = [IdleTurn EXCEPT !.pc = "done", !.status = 503]]
            /\ UNCHANGED <<sessions, uuid_count>>
       ELSE /\ TruthyId(request.session_id) \/ uuid_count < MaxUuid
            /\ LET resolved == resolve_session(sessions, request, clock, uuid4)
                   begun    == chat_completion_begin(resolved.sessions, resolved.session_id,
                                                     request.message, clock)
               IN  /\ sessions' = begun.sessions
                   /\ uuid_count' = IF TruthyId(request.session_id)
                                    THEN uuid_count ELSE uuid_count + 1
                   /\ turn' = [turn EXCEPT ![t] =
                                 [IdleTurn EXCEPT !.pc = "awaiting",
                                                  !.session_id = resolved.session_id,
                                                  !.messages_for_api = begun.messages_for_api,
                                                  !.provider_calls = 1]]
    /\ seen' = SeenAfter(sessions')
    /\ UNCHANGED <<lifespan_pc, openai_chat_client, clock, store_calls, last>>

\* a variant that answers an error when the session is gone at the reply
ChatReturn_fails_when_gone(t, content) ==
    /\ turn[t].pc = "awaiting"
    /\ LET ended == chat_completion_end(sessions, turn[t].session_id, content, clock)
           gone  == turn[t].session_id \notin DOMAIN sessions
       IN  /\ sessions' = ended.sessions
           /\ turn' = [turn EXCEPT ![t] =
                         [IdleTurn EXCEPT !.pc = "done",
                                          !.status = IF gone THEN 500 ELSE 200,
                                          !.session_id = turn[t].session_id,
                                          !.response = IF gone THEN <<>> ELSE ended.response,
                                          !.message_count = ended.message_count,
                                          !.provider_calls = turn[t].provider_calls]]
    /\ seen' = SeenAfter(sessions')
    /\ UNCHANGED <<lifespan_pc, openai_chat_client, uuid_count, clock, store_calls, last>>

\* the provider replies: chat_completion resumes and the route answers 200
\* (messages_for_api is a local that is dead after the await)
ChatReturn(t, content) ==
    /\ turn[t].pc = "awaiting"
    /\ LET ended == chat_completion_end(sessions, turn[t].session_id, content, clock)
       IN  /\ sessions' = ended.sessions
           /\ turn' = [turn EXCEPT ![t] =
                         [IdleTurn EXCEPT !.pc = "done", !.status = 200,
                                          !.session_id = turn[t].session_id,
                                          !.response = ended.response,
                                          !.message_count = ended.message_count,
                                          !.provider_calls = turn[t].provider_calls]]
    /\ seen' = SeenAfter(sessions')
    /\ UNCHANGED <<lifespan_pc, openai_chat_client, uuid_count, clock, store_calls, last>>

\* a variant that calls the provider once more before it gives up
ChatRaise_retries(t, exc) ==
    /\ turn[t].pc = "awaiting"
    /\ turn' = [turn EXCEPT ![t] =
                  IF turn[t].provider_calls < 2
                  THEN [@ EXCEPT !.provider_calls = @ + 1]
                  ELSE [IdleTurn EXCEPT !.pc = "done", !.status = chat_error_status(exc),
                                        !.session_id = turn[t].session_id,
                                        !.provider_calls = turn[t].provider_calls]]
    /\ UNCHANGED <<lifespan_pc, openai_chat_client, sessions, uuid_count, clock, store_calls,
                 last, seen>>

\* the provider call raises (openai.APIError, which covers a timeout, or any
\* other exception): chat_completion re-raises and the route answers an error
ChatRaise(t, exc) ==
    /\ turn[t].pc = "awaiting"
    /\ turn' = [turn EXCEPT ![t] =
                  [IdleTurn EXCEPT !.pc = "done", !.status = chat_error_status(exc),
                                   !.session_id = turn[t].session_id,
                                   !.provider_calls = turn[t].provider_calls]]
    /\ UNCHANGED <<lifespan_pc, openai_chat_client, sessions, uuid_count, clock, store_calls,
                 last, seen>>

\* a variant that does not ask whether the client is initialised
GetSession_unchecked(session_id) ==
    /\ lifespan_pc = "running"
    /\ LET context == get_session_context(sessions, session_id)
       IN  /\ last' = Response("get", session_id,
                               IF context = <<>> THEN 404 ELSE 200, context)
           /\ seen' = [seen EXCEPT ![session_id] = Record(@, context)]
    /\ UNCHANGED <<lifespan_pc, openai_chat_client, sessions, uuid_count, clock, turn,
                 store_calls>>

\* GET /chat/openai/{session_id}
GetSession(session_id) ==
    /\ lifespan_pc = "running"
    /\ IF openai_chat_client = "None"
       THEN /\ last' = Response("get", session_id, 503, <<>>)
            /\ UNCHANGED seen
       ELSE LET context == get_session_context(sessions, session_id)
            IN  /\ last' = Response("get", session_id,
                                    IF context = <<>> THEN 404 ELSE 200, context)
                /\ seen' = [seen EXCEPT ![session_id] = Record(@, context)]
    /\ UNCHANGED <<lifespan_pc, openai_chat_client, sessions, uuid_count, clock, turn,
                 store_calls>>

\* DELETE /chat/openai/{session_id}
DeleteSession(session_id) ==
    /\ lifespan_pc = "running"
    /\ IF openai_chat_client = "None"
       THEN /\ last' = Response("delete", session_id, 503, <<>>)
            /\ UNCHANGED sessions
       ELSE LET deleted == delete_session(sessions, session_id)
            IN  /\ sessions' = deleted.sessions
                /\ last' = Response("delete", session_id,
                                    IF deleted.ok THEN 204 ELSE 404, <<>>)
    /\ seen' = SeenAfter(sessions')
    /\ UNCHANGED <<lifespan_pc, openai_chat_client, uuid_count, clock, turn, store_calls>>

\* ---- calls of OpenAIChatClient methods no route reaches (in-process callers)
CreateSession(session_id, system_prompt) ==
    /\ openai_chat_client = "client"
    /\ store_calls < MaxCalls
    /\ store_calls' = store_calls + 1
    /\ session_id # NoneId \/ uuid_count < MaxUuid
    /\ LET created == create_session(sessions, session_id, system_prompt, clock, uuid4)
       IN  /\ sessions' = created.sessions
           /\ last' = Response("create", created.session_id, 0, <<>>)
    /\ uuid_count' = IF session_id = NoneId THEN uuid_count + 1 ELSE uuid_count
    /\ seen' = SeenAfter(sessions')
    /\ UNCHANGED <<lifespan_pc, openai_chat_client, clock, turn>>

AddMessage(session_id, role, content) ==
    /\ openai_chat_client = "client"
    /\ store_calls < MaxCalls
    /\ store_calls' = store_calls + 1
    /\ LET added == add_message_to_session(sessions, session_id, role, content, clock)
       IN  /\ sessions' = added.sessions
           /\ last' = Response("append", session_id, 0, <<added.ok>>)
    /\ seen' = SeenAfter(sessions')
    /\ UNCHANGED <<lifespan_pc, openai_chat_client, uuid_count, clock, turn>>

\* a variant that removes a session it leaves without messages
ClearMessages_drops_empty(session_id, keep_system) ==
    /\ openai_chat_client = "client"
    /\ store_calls < MaxCalls
    /\ store_calls' = store_calls + 1
    /\ LET cleared == clear_session_messages(sessions, session_id, keep_system, clock)
       IN  /\ sessions' = IF cleared.ok /\ cleared.sessions[session_id].messages = <<>>
                          THEN Del(sessions, session_id) ELSE cleared.sessions
           /\ last' = Response("clear", session_id, 0, <<cleared.ok>>)
    /\ seen' = SeenAfter(sessions')
    /\ UNCHANGED <<lifespan_pc, openai_chat_client, uuid_count, clock, turn>>

ClearMessages(session_id, keep_system) ==
    /\ openai_chat_client = "client"
    /\ store_calls < MaxCalls
    /\ store_calls' = store_calls + 1
    /\ LET cleared == clear_session_messages(sessions, session_id, keep_system, clock)
       IN  /\ sessions' = cleared.sessions
           /\ last' = Response("clear", session_id, 0, <<cleared.ok>>)
    /\ seen' = SeenAfter(sessions')
    /\ UNCHANGED <<lifespan_pc, openai_chat_client, uuid_count, clock, turn>>

ListSessions ==
    /\ openai_chat_client = "client"
    /\ last' = Response("list", NoneId, 0, list_sessions(sessions))
    /\ UNCHANGED <<lifespan_pc, openai_chat_client, sessions, uuid_count, clock, turn,
                 store_calls, seen>>

NextHttp ==
    \/ \E ok \in BOOLEAN : Startup(ok)
    \/ \E t \in TurnIds, request \in ChatRequests : ChatBegin(t, request)
    \/ \E t \in TurnIds, content \in ReplyTexts : ChatReturn(t, content)
    \/ \E t \in TurnIds, exc \in {"APIError", "Exception"} : ChatRaise(t, exc)
    \/ \E session_id \in KnownIds : GetSession(session_id)
    \/ \E session_id \in KnownIds : DeleteSession(session_id)

NextStore ==
    \/ \E session_id \in {NoneId} \cup StoreIds, system_prompt \in Prompts :
          CreateSession(session_id, system_prompt)
    \/ \E session_id \in StoreIds, role \in MessageRole :
          AddMessage(session_id, role, <<"q">>)
    \/ \E session_id \in StoreIds, keep_system \in BOOLEAN :
          ClearMessages(session_id, keep_system)

NextTurns ==
    \/ \E ok \in BOOLEAN : Startup(ok)
    \/ \E t \in TurnIds, request \in ChatRequests : ChatBegin(t, request)
    \/ \E t \in TurnIds, content \in ReplyTexts : ChatReturn(t, content)
    \/ \E t \in TurnIds, exc \in {"APIError", "Exception"} : ChatRaise(t, exc)

\* the HTTP operations, with chat requests that set max_tokens and temperature
NextRequests ==
    \/ \E ok \in BOOLEAN : Startup(ok)
    \/ \E t \in TurnIds, request \in AnyChatRequests : ChatBegin(t, request)
    \/ \E t \in TurnIds, content \in ReplyTexts : ChatReturn(t, content)
    \/ \E t \in TurnIds, exc \in {"APIError", "Exception"} : ChatRaise(t, exc)
    \/ \E session_id \in KnownIds : GetSession(session_id)
    \/ \E session_id \in KnownIds : DeleteSession(session_id)

\* the service as deployed: the three HTTP operations
Spec == Init /\ [][NextHttp]_vars
\* chat turns alone: no session is ever deleted
SpecTurns == Init /\ [][NextTurns]_vars
\* the HTTP operations and the passage of time
SpecClock == Init /\ [][NextHttp \/ Tick]_vars
\* the HTTP operations and clear_session_messages
SpecClear ==
    Init /\ [][NextHttp \/ \E session_id \in StoreIds, keep_system \in BOOLEAN :
                              ClearMessages(session_id, keep_system)]_vars
\* the HTTP operations, with every kind of chat request
SpecRequests == Init /\ [][NextRequests]_vars
\* the HTTP operations under the scheduling the code has: lifespan runs to
\* its yield.  Nothing makes the awaited provider call end: AsyncOpenAI and
\* chat.completions.create are given no timeout and the await is wrapped in
\* no timer, so ChatReturn and ChatRaise happen only when the provider acts.
SpecLive == Init /\ [][NextHttp]_vars /\ WF_vars(\E ok \in BOOLEAN : Startup(ok))
\* the client's methods that no route calls, list_sessions among them, on
\* messages short and long
NextList ==
    \/ \E ok \in BOOLEAN : Startup(ok)
    \/ \E session_id \in {NoneId} \cup StoreIds, system_prompt \in Prompts :
          CreateSession(session_id, system_prompt)
    \/ \E session_id \in StoreIds, role \in MessageRole,
          content \in {<<>>, <<"q">>, LongText} :
          AddMessage(session_id, role, content)
    \/ ListSessions

SpecList == Init /\ [][NextList]_vars
\* chat turns, delete and the client's other public methods
SpecStore ==
    Init /\ [][NextTurns \/ NextStore
               \/ \E session_id \in KnownIds : DeleteSession(session_id)]_vars

\* ================================================================= claims
Messages(i) == sessions[i].messages
Transcript(i) == get_session_messages_for_api(sessions, i)
IsPrefix(a, b) == Len(a) <= Len(b) /\ SubSeq(b, 1, Len(a)) = a
\* a transcript without its leading system message
NonSeed(tr) == IF tr # <<>> /\ tr[1].role = "system" THEN Tail(tr) ELSE tr
\* the turns started before turn t that resolved to the same session id
EarlierTurns(t) ==
    {u \in TurnIds : u < t /\ turn[u].pc # "idle"
                     /\ turn[u].session_id = turn[t].session_id}

\* C1: while a turn is between its user append and its assistant append (or
\* its failure), no other turn on the same session id is between its own:
\* two turns never await the provider for one session id at the same time.
C1_TurnsDoNotInterleave ==
    \A t, u \in TurnIds :
        (t # u /\ turn[t].pc = "awaiting" /\ turn[u].pc = "awaiting")
            => turn[t].session_id # turn[u].session_id

\* C2: when the turns before it on its session all succeeded, the transcript
\* turn k submitted holds the optional system seed and then exactly
\* 2(k-1)+1 messages, ends with a user message, and is a prefix of the
\* session's messages (oldest first, never reordered).
C2_TranscriptOfTurnK ==
    \A t \in TurnIds :
        (turn[t].pc = "awaiting" /\ \A u \in EarlierTurns(t) : turn[u].status = 200)
            => LET tr == turn[t].messages_for_api
                   k  == Cardinality(EarlierTurns(t)) + 1
               IN  /\ Len(NonSeed(tr)) = 2 * (k - 1) + 1
                   /\ tr[Len(tr)].role = "user"
                   /\ turn[t].session_id \in DOMAIN sessions
                   /\ IsPrefix(tr, Transcript(turn[t].session_id))

\* C3: whenever a reply is appended to a session as an assistant message, the
\* transcript that reply answers equals the messages that precede it in the
\* session (same roles and contents, same order, none missing, none extra).
C3_ReplyAnswersWhatPrecedesIt ==
    [][\A t \in TurnIds, content \in ReplyTexts :
          (ChatReturn(t, content) /\ turn[t].session_id \in DOMAIN sessions)
              => Transcript(turn[t].session_id) = turn[t].messages_for_api]_vars

\* C4: when the provider call of a turn fails, the session holds exactly one
\* message more than before the user append (as many as the transcript
\* sent), the turn's user message is its last message, and the caller gets
\* an error status.
C4_FailedTurnLeavesOnlyUserMessage ==
    [][\A t \in TurnIds, exc \in {"APIError", "Exception"} :
          ChatRaise(t, exc)
              => LET i  == turn[t].session_id
                     tr == turn[t].messages_for_api
                 IN  /\ i \in DOMAIN sessions'
                     /\ Len(sessions'[i].messages) = Len(tr)
                     /\ sessions'[i].messages[Len(tr)].role = USER
                     /\ sessions'[i].messages[Len(tr)].content = tr[Len(tr)].content
                     /\ turn'[t].status >= 500]_vars

\* C6: a turn that succeeds has appended its user message and then the reply
\* as an assistant message to its session, and returns the reply text, the
\* session id and the session's number of messages after the assistant
\* append (2 for the first turn of an implicit session without system seed).
C6_SuccessfulTurnAppendsTwo ==
    [][\A t \in TurnIds, content \in ReplyTexts :
          ChatReturn(t, content)
              => LET i == turn[t].session_id
                 IN  /\ i \in DOMAIN sessions /\ i \in DOMAIN sessions'
                     /\ sessions'[i].messages =
                            Append(sessions[i].messages,
                                   ChatMessage(ASSISTANT, turn'[t].response, clock))
                     /\ turn'[t].response = strip(content)
                     /\ turn'[t].session_id = i
                     /\ turn'[t].status = 200
                     /\ turn'[t].message_count = Len(sessions'[i].messages)
                     /\ turn'[t].message_count >= 2
                     /\ (i \in UuidIds /\ EarlierTurns(t) = {}
                            /\ sessions'[i].messages[1].role # SYSTEM)
                          => turn'[t].message_count = 2]_vars

\* ---- C5
\* C5 as stated (for the first get or delete request that follows a
\* successful delete of an id, whatever chat turns come in between): it
\* reports not-found.
C5_DeleteIsFinal ==
    [][\A i \in AllIds :
          (/\ last.op = "delete" /\ last.status = 204 /\ last.session_id = i
           /\ GetSession(i) \/ DeleteSession(i))
              => last'.status = 404]_vars

\* C5 as amended: a successful delete removes the id from the store; get and
\* delete on an id that is not in the store report not-found; and an id that
\* is not in the store enters it only when a chat request creates a session
\* at it (the reply of a turn that was in flight does not bring it back).
C5_DeletedUntilCreatedAgain ==
    [][\A i \in AllIds :
          /\ (DeleteSession(i) /\ last'.status = 204) => i \notin DOMAIN sessions'
          /\ (/\ openai_chat_client = "client" /\ i \notin DOMAIN sessions
              /\ GetSession(i) \/ DeleteSession(i))
                 => last'.status = 404 /\ i \notin DOMAIN sessions'
          /\ (i \notin DOMAIN sessions /\ i \in DOMAIN sessions')
                 => \E t \in TurnIds, request \in ChatRequests :
                        ChatBegin(t, request) /\ turn'[t].session_id = i]_vars

\* a get or delete reported not-found for an id whose session a finished turn
\* had counted messages in: it was deleted in between
C5_Witness ==
    /\ last.op \in {"get", "delete"}
    /\ last.status = 404
    /\ last.session_id \notin DOMAIN sessions
    /\ \E t \in TurnIds : /\ turn[t].session_id = last.session_id
                          /\ turn[t].status = 200
                          /\ turn[t].message_count > 0

\* ---- C7
RolesOf(msgs) == [n \in 1..Len(msgs) |-> msgs[n].role]

\* C7 as stated: "no session id" is session_id = None, and a system prompt
\* is supplied when system_prompt is not None.
C7_ResolutionAsStated ==
    [][\A t \in TurnIds, request \in ChatRequests :
          (ChatBegin(t, request) /\ openai_chat_client = "client")
              => LET i    == turn'[t].session_id
                     user == ChatMessage(USER, request.message, clock)
                     seed == IF request.system_prompt # None
                             THEN <<ChatMessage(SYSTEM, request.system_prompt, clock)>>
                             ELSE <<>>
                 IN  /\ i \in DOMAIN sessions'
                     /\ request.session_id = NoneId
                          => i \notin DOMAIN sessions
                             /\ sessions'[i].messages = seed \o <<user>>
                     /\ (request.session_id # NoneId
                            /\ request.session_id \notin DOMAIN sessions)
                          => i = request.session_id
                             /\ sessions'[i].messages = seed \o <<user>>
                     /\ request.session_id \in DOMAIN sessions
                          => i = request.session_id
                             /\ sessions'[i].messages =
                                    Append(sessions[i].messages, user)
                             /\ sessions'[i].created_at = sessions[i].created_at]_vars

\* C7 as amended: a session id that is None or "" counts as no session id
\* (a session is created under an id no session has); an id that is not in
\* the store gets a session at exactly that id; in both cases the session
\* starts with one system message iff system_prompt is a non-empty string;
\* an id that is in the store keeps its session: its messages stay, the
\* user message is appended and no system message is added.
C7_Resolution ==
    [][\A t \in TurnIds, request \in ChatRequests :
          (ChatBegin(t, request) /\ openai_chat_client = "client")
              => LET i    == turn'[t].session_id
                     user == ChatMessage(USER, request.message, clock)
                     seed == IF Truthy(request.system_prompt)
                             THEN <<ChatMessage(SYSTEM, request.system_prompt, clock)>>
                             ELSE <<>>
                 IN  /\ i \in DOMAIN sessions'
                     /\ ~TruthyId(request.session_id)
                          => i \notin DOMAIN sessions
                             /\ sessions'[i].messages = seed \o <<user>>
                     /\ (TruthyId(request.session_id)
                            /\ request.session_id \notin DOMAIN sessions)
                          => i = request.session_id
                             /\ sessions'[i].messages = seed \o <<user>>
                     /\ request.session_id \in DOMAIN sessions
                          => i = request.session_id
                             /\ sessions'[i].messages =
                                    Append(sessions[i].messages, user)
                             /\ sessions'[i].created_at = sessions[i].created_at]_vars

\* a new explicit id with a system prompt, then two successful turns
C7_Witness ==
    /\ 1 \in DOMAIN sessions
    /\ RolesOf(Messages(1)) = <<SYSTEM, USER, ASSISTANT, USER, ASSISTANT>>
    /\ \A t \in TurnIds : turn[t].session_id = 1 /\ turn[t].status = 200

\* ---- C8
\* C8: in every session, every assistant message has a user message
\* somewhere before it.
C8_AssistantFollowsUser ==
    \A i \in DOMAIN sessions :
        \A n \in 1..Len(Messages(i)) :
            Messages(i)[n].role = ASSISTANT
                => \E m \in 1..(n - 1) : Messages(i)[m].role = USER

\* ---- C9
\* what one add_message_to_session call does and returns
AppendAddsOne(i) ==
    \A role \in MessageRole, content \in UserTexts :
        AddMessage(i, role, content)
            => IF i \in DOMAIN sessions
               THEN /\ last'.body = <<TRUE>>
                    /\ i \in DOMAIN sessions'
                    /\ sessions'[i].messages =
                           Append(sessions[i].messages, ChatMessage(role, content, clock))
                    /\ sessions'[i].updated_at = clock
                    /\ \A j \in AllIds \ {i} : ~Changed(j, sessions, sessions')
               ELSE /\ last'.body = <<FALSE>>
                    /\ sessions' = sessions

\* the appends a chat turn makes: the user message, then the reply
TurnAppendsOne(i) ==
    /\ \A t \in TurnIds, request \in ChatRequests :
          (ChatBegin(t, request) /\ i \in DOMAIN sessions /\ turn'[t].session_id = i)
              => Len(sessions'[i].messages) = Len(sessions[i].messages) + 1
    /\ \A t \in TurnIds, content \in ReplyTexts :
          (ChatReturn(t, content) /\ turn[t].session_id = i)
              => IF i \in DOMAIN sessions
                 THEN Len(sessions'[i].messages) = Len(sessions[i].messages) + 1
                 ELSE sessions' = sessions

\* C9 as stated: while a session exists its number of messages never
\* decreases; an append that returns true adds exactly one message; an
\* append to an absent session returns false and changes no session.
C9_CountNeverDecreases ==
    [][\A i \in AllIds :
          /\ (i \in DOMAIN sessions /\ i \in DOMAIN sessions')
                => Len(sessions'[i].messages) >= Len(sessions[i].messages)
          /\ AppendAddsOne(i)
          /\ TurnAppendsOne(i)]_vars

\* C9 as amended: the number of messages of a session never decreases except
\* when clear_session_messages empties it or create_session replaces the
\* session of an id that is in the store; appends are as stated.
C9_CountDecreasesOnlyByClearOrCreate ==
    [][\A i \in AllIds :
          /\ (/\ i \in DOMAIN sessions /\ i \in DOMAIN sessions'
              /\ ~ \E keep_system \in BOOLEAN : ClearMessages(i, keep_system)
              /\ ~ \E system_prompt \in Prompts : CreateSession(i, system_prompt))
                => Len(sessions'[i].messages) >= Len(sessions[i].messages)
          /\ AppendAddsOne(i)
          /\ TurnAppendsOne(i)]_vars

\* an append returned true on a session that held messages already
C9_Witness ==
    /\ last.op = "append"
    /\ last.body = <<TRUE>>
    /\ last.session_id \in DOMAIN sessions
    /\ Len(Messages(last.session_id)) >= 2

\* ---- C10
\* C10: a get-context request changes nothing in the store, and the context
\* it returns for an id equals the first one returned for that id since the
\* id's session last changed (roles, contents, timestamps, order, count).
C10_GetContextRepeatable ==
    /\ [](\A i \in AllIds : Len(seen[i]) = 2 => seen[i][1] = seen[i][2])
    /\ [][\A i \in AllIds :
             GetSession(i)
                 => /\ sessions' = sessions
                    /\ turn' = turn
                    /\ (seen[i] # <<>> /\ openai_chat_client = "client")
                          => last'.status = 200 /\ last'.body = <<seen[i][1]>>]_vars

\* a second get-context of a session with messages, at a later time than
\* its last message
C10_Witness ==
    \E i \in DOMAIN sessions :
        /\ Len(seen[i]) = 2
        /\ Messages(i) # <<>>
        /\ clock > sessions[i].updated_at
        /\ last.op = "get" /\ last.session_id = i

\* ---- C11
\* C11: a chat request whose max_tokens is outside 1..4000 or whose
\* temperature is outside 0.0..2.0 is rejected: the store after it equals the
\* store before it, no session id is drawn, and the turn ends without a
\* provider call.
C11_InvalidRequestChangesNothing ==
    [][\A t \in TurnIds, request \in AnyChatRequests :
          (/\ turn[t].pc = "idle" /\ turn'[t].pc # "idle"
           /\ \/ request.max_tokens \notin 1..4000
              \/ request.temperature \notin 0..20
           /\ ChatBegin(t, request))
              => /\ sessions' = sessions
                 /\ uuid_count' = uuid_count
                 /\ turn'[t].pc = "done"
                 /\ turn'[t].status = 422]_vars

\* a request was rejected while the store held a session with messages
C11_Witness ==
    /\ \E t \in TurnIds : turn[t].pc = "done" /\ turn[t].status = 422
    /\ \E i \in DOMAIN sessions : Messages(i) # <<>>

\* ---- C12
\* C12: a chat request with an empty message is rejected with an error: it
\* creates no session, appends no message and makes no provider call.
C12_EmptyMessageRejected ==
    [][\A t \in TurnIds, request \in ChatRequests :
          (/\ turn[t].pc = "idle" /\ turn'[t].pc # "idle"
           /\ request.message = <<>>
           /\ ChatBegin(t, request))
              => /\ sessions' = sessions
                 /\ turn'[t].pc = "done"
                 /\ turn'[t].status >= 400]_vars

\* ---- C13
\* C13: a provider error raised by the chat-completion call is answered with
\* status 502 and any other exception with status 500.
C13_ProviderErrorIs502 ==
    [][\A t \in TurnIds :
          /\ ChatRaise(t, "APIError") => turn'[t].status = 502
          /\ ChatRaise(t, "Exception") => turn'[t].status = 500]_vars

\* ---- C14
\* C14 as stated: while the client is not initialised every chat, get-context
\* and delete request is answered 503 and changes nothing; once the client is
\* set it stays set.
C14_UnavailableAsStated ==
    [][/\ openai_chat_client = "None"
          => /\ \A t \in TurnIds, request \in AnyChatRequests :
                   (turn[t].pc = "idle" /\ turn'[t].pc # "idle" /\ ChatBegin(t, request))
                       => /\ turn'[t].status = 503 /\ turn'[t].pc = "done"
                          /\ sessions' = sessions /\ uuid_count' = uuid_count
             /\ \A i \in AllIds :
                   (GetSession(i) \/ DeleteSession(i))
                       => last'.status = 503 /\ sessions' = sessions
       /\ openai_chat_client = "client" => openai_chat_client' = "client"]_vars

\* C14 as amended: while the client is not initialised, every chat request
\* whose max_tokens and temperature are within their bounds, and every
\* get-context and delete request, is answered 503 (a chat request outside
\* the bounds is answered 422, as when the client is there); none of them
\* creates or changes a session or calls the provider; once startup has set
\* the client it is never unset.
C14_Unavailable ==
    [][/\ openai_chat_client = "None"
          => /\ \A t \in TurnIds, request \in AnyChatRequests :
                   (turn[t].pc = "idle" /\ turn'[t].pc # "idle" /\ ChatBegin(t, request))
                       => /\ turn'[t].status =
                                IF /\ request.max_tokens \in 1..4000
                                   /\ request.temperature \in 0..20
                                THEN 503 ELSE 422
                          /\ turn'[t].pc = "done"
                          /\ sessions' = sessions /\ uuid_count' = uuid_count
             /\ \A i \in AllIds :
                   (GetSession(i) \/ DeleteSession(i))
                       => last'.status = 503 /\ sessions' = sessions
       /\ openai_chat_client = "client" => openai_chat_client' = "client"]_vars

\* initialisation failed; a chat request and a get or delete request were
\* answered 503
C14_Witness ==
    /\ lifespan_pc = "running"
    /\ openai_chat_client = "None"
    /\ \E t \in TurnIds : turn[t].pc = "done" /\ turn[t].status = 503
    /\ last.status = 503
    /\ sessions = EmptyDict

\* ---- C15
\* C15: get-context and delete on an id that is not in the store answer 404
\* and leave the store as it is; delete on an id that is in the store answers
\* success and removes that session and no other.
C15_NotFoundAndDelete ==
    [][\A i \in AllIds :
          openai_chat_client = "client"
              => /\ (i \notin DOMAIN sessions /\ (GetSession(i) \/ DeleteSession(i)))
                       => last'.status = 404 /\ sessions' = sessions
                 /\ (i \in DOMAIN sessions /\ DeleteSession(i))
                       => /\ last'.status = 204
                          /\ DOMAIN sessions' = (DOMAIN sessions) \ {i}
                          /\ \A j \in DOMAIN sessions' : sessions'[j] = sessions[j]]_vars

\* a delete succeeded and left another session, with its messages, in the store
C15_Witness ==
    /\ last.op = "delete" /\ last.status = 204
    /\ last.session_id \notin DOMAIN sessions
    /\ \E j \in DOMAIN sessions : Messages(j) # <<>>

\* ---- C16
IsSystemMessage(m) == m.role = SYSTEM

\* C16: clear_session_messages on an existing session replaces its messages
\* by its system messages, in their order, when keep_system is true and by
\* no message when it is false, changes no other session and returns true;
\* on an absent id it returns false and changes nothing.
C16_ClearKeepsSystemMessages ==
    [][\A i \in AllIds, keep_system \in BOOLEAN :
          ClearMessages(i, keep_system)
              => IF i \in DOMAIN sessions
                 THEN /\ last'.body = <<TRUE>>
                      /\ DOMAIN sessions' = DOMAIN sessions
                      /\ sessions'[i].messages =
                             IF keep_system
                             THEN SelectSeq(sessions[i].messages, IsSystemMessage)
                             ELSE <<>>
                      /\ \A j \in DOMAIN sessions \ {i} : sessions'[j] = sessions[j]
                 ELSE /\ last'.body = <<FALSE>>
                      /\ sessions' = sessions]_vars

\* a session that held one system message and four others (the turn counted
\* five) was cleared and holds the system message alone
C16_Witness ==
    /\ last.op = "clear" /\ last.body = <<TRUE>>
    /\ last.session_id \in DOMAIN sessions
    /\ RolesOf(Messages(last.session_id)) = <<SYSTEM>>
    /\ \E t \in TurnIds : /\ turn[t].session_id = last.session_id
                          /\ turn[t].status = 200
                          /\ turn[t].message_count = 5

\* ---- C17
\* the session of turn t is in the store and begins with the transcript the
\* turn sent, whose last message is the turn's user message
Intact(t) ==
    /\ turn[t].session_id \in DOMAIN sessions
    /\ IsPrefix(turn[t].messages_for_api, Transcript(turn[t].session_id))

C18_OneProviderCallPerTurn ==
    /\ [](\A t \in TurnIds :
             /\ turn[t].provider_calls <= 1
             /\ turn[t].pc = "awaiting" => turn[t].provider_calls = 1
             /\ (turn[t].pc = "done" /\ turn[t].status \in {200, 500, 502})
                   => turn[t].provider_calls = 1
             /\ (turn[t].pc = "done" /\ turn[t].status \in {422, 503})
                   => turn[t].provider_calls = 0)
    /\ [][\A t \in TurnIds :
             /\ \A exc \in {"APIError", "Exception"} :
                   ChatRaise(t, exc) => turn'[t].pc = "done"
             /\ (turn[t].pc = "awaiting" /\ turn'[t].pc # "awaiting")
                   => turn'[t].pc = "done"
                      /\ turn'[t].provider_calls = turn[t].provider_calls
             /\ turn[t].pc = "done" => turn'[t] = turn[t]]_vars

\* a turn failed after its one provider call, its user message appended
C18_Witness ==
    \E t \in TurnIds :
        /\ turn[t].pc = "done" /\ turn[t].status >= 500 /\ turn[t].status # 503
        /\ turn[t].provider_calls = 1
        /\ turn[t].session_id \in DOMAIN sessions
        /\ Messages(turn[t].session_id) # <<>>

\* ---- C19
\* C19: an id that is in the store leaves it only by a delete_session of
\* that id that succeeds: turns that succeed or fail, get-context and clear
\* remove no session.
C19_RemovedOnlyByDelete ==
    [][\A i \in AllIds :
          (i \in DOMAIN sessions /\ i \notin DOMAIN sessions')
              => DeleteSession(i) /\ last'.status = 204]_vars

\* a session went through a successful turn, a failed turn and a clear and
\* is in the store
C19_Witness ==
    /\ last.op = "clear" /\ last.body = <<TRUE>>
    /\ last.session_id \in DOMAIN sessions
    /\ \E t, u \in TurnIds : /\ turn[t].session_id = last.session_id
                             /\ turn[u].session_id = last.session_id
                             /\ turn[t].status = 200 /\ turn[t].message_count > 0
                             /\ turn[u].status = 500

\* ---- C20
\* C20: every turn that has issued its provider call eventually completes,
\* with a reply or with an error.
C20_TurnEventuallyCompletes ==
    \A t \in TurnIds : (turn[t].pc = "awaiting") ~> (turn[t].pc = "done")

\* ---- C21
\* a step of a chat turn (its begin, its reply or its failure) on session i
TurnStepOn(t, i) == turn'[t] # turn[t] /\ turn'[t].session_id = i

\* C21: a chat turn, a clear or a delete that targets session i leaves every
\* other session as it was (present or absent, its messages and its dates),
\* and a step of a chat turn changes, beside the store, nothing that another
\* request reads: not the client, not another turn, not the clock.
C21_OtherSessionsUnchanged ==
    [][\A i \in AllIds :
          /\ (\/ \E t \in TurnIds : TurnStepOn(t, i)
              \/ \E keep_system \in BOOLEAN : ClearMessages(i, keep_system)
              \/ DeleteSession(i))
                 => \A j \in AllIds \ {i} : ~Changed(j, sessions, sessions')
          /\ \A t \in TurnIds :
                TurnStepOn(t, i)
                    => /\ \A u \in TurnIds \ {t} : turn'[u] = turn[u]
                       /\ UNCHANGED <<lifespan_pc, openai_chat_client, clock,
                                      store_calls, last>>]_vars

\* a session was cleared while another one, which a finished turn had
\* counted, still holds every message the turn counted
C21_Witness ==
    \E i, j \in DOMAIN sessions :
        /\ i # j
        /\ last.op = "clear" /\ last.body = <<TRUE>> /\ last.session_id = i
        /\ \E t \in TurnIds : /\ turn[t].session_id = j /\ turn[t].status = 200
                              /\ turn[t].message_count = Len(Messages(j))
                              /\ turn[t].message_count >= 2
        /\ \E u \in TurnIds : turn[u].session_id = i /\ turn[u].pc # "idle"

\* ---- C22
\* the first n characters of a string
Truncated(content, n) == SubSeq(content, 1, IF Len(content) < n THEN Len(content) ELSE n)
UserMessages(msgs) == SelectSeq(msgs, LAMBDA m : m.role = USER)

\* what C22 says of a listing beside the preview: one summary per session of
\* the store, with the session's counts; the store is not changed
ListingCounts ==
    ListSessions
        => /\ sessions' = sessions
           /\ {summary.session_id : summary \in last'.body} = DOMAIN sessions
           /\ Cardinality(last'.body) = Cardinality(DOMAIN sessions)
           /\ \A summary \in last'.body :
                 LET msgs == sessions[summary.session_id].messages
                 IN  /\ summary.message_count = Len(msgs)
                     /\ summary.user_message_count = Len(UserMessages(msgs))
                     /\ summary.user_message_count <= summary.message_count
                     /\ msgs = <<>> <=> summary.last_message_preview = None

\* C22 as stated: the preview is the content of the last message cut to at
\* most 50 characters.
C22_ListingAsStated ==
    [][/\ ListingCounts
       /\ ListSessions
            => \A summary \in last'.body :
                 LET msgs == sessions[summary.session_id].messages
                 IN  msgs # <<>>
                       => /\ summary.last_message_preview =
                                Truncated(msgs[Len(msgs)].content, 50)
                          /\ Len(summary.last_message_preview) <= 50]_vars

\* C22 as amended: the preview is the first 50 characters of the content of
\* the last message followed by "..." (whether or not anything was cut), so
\* it has at most 53 characters.
C22_Listing ==
    [][/\ ListingCounts
       /\ ListSessions
            => \A summary \in last'.body :
                 LET msgs == sessions[summary.session_id].messages
                 IN  msgs # <<>>
                       => /\ summary.last_message_preview =
                                Truncated(msgs[Len(msgs)].content, 50) \o <<".", ".", ".">>
                          /\ Len(summary.last_message_preview) <= 53]_vars

\* a listing of a session whose last message is a user message of more than
\* 50 characters and is not its first message
C22_Witness ==
    /\ last.op = "list"
    /\ \E summary \in last.body :
          /\ summary.message_count = 2
          /\ summary.user_message_count = 1
          /\ Len(summary.last_message_preview) = 53

\* ---- C23
\* C23: create_session with an id that is in the store returns that id (no
\* error): the session of the id is replaced by a new one that holds the
\* system seed when a system prompt is given and no message otherwise; the
\* store holds the same ids as before and the other sessions are unchanged.
C23_CreateReplaces ==
    [][\A i \in AllIds, system_prompt \in Prompts :
          (CreateSession(i, system_prompt) /\ i \in DOMAIN sessions)
              => /\ last'.session_id = i
                 /\ DOMAIN sessions' = DOMAIN sessions
                 /\ sessions'[i].session_id = i
                 /\ sessions'[i].created_at = clock
                 /\ sessions'[i].messages \in
                        {<<>>, <<ChatMessage(SYSTEM, system_prompt, clock)>>}
                 /\ sessions'[i].messages = <<>>
                        <=> (system_prompt = None \/ system_prompt = <<>>)
                 /\ \A j \in DOMAIN sessions \ {i} : sessions'[j] = sessions[j]]_vars

\* create_session was called on the id of a session in which a turn had
\* counted two messages or more: the seed is all the session holds
C23_Witness ==
    /\ last.op = "create"
    /\ last.session_id \in DOMAIN sessions
    /\ RolesOf(Messages(last.session_id)) = <<SYSTEM>>
    /\ \E t \in TurnIds : /\ turn[t].session_id = last.session_id
                          /\ turn[t].status = 200
                          /\ turn[t].message_count >= 2

\* ---- C24
\* C24: through every step that is not a clear or a create_session on its id
\* (and leaves the id in the store), the messages a session held are a prefix
\* of the messages it holds afterwards: nothing is changed, removed, or
\* inserted before the end.
C24_MessagesArePrefix ==
    [][\A i \in AllIds :
          (/\ i \in DOMAIN sessions /\ i \in DOMAIN sessions'
           /\ ~ \E keep_system \in BOOLEAN : ClearMessages(i, keep_system)
           /\ ~ \E system_prompt \in Prompts : CreateSession(i, system_prompt))
              => /\ Len(sessions[i].messages) <= Len(sessions'[i].messages)
                 /\ \A n \in 1..Len(sessions[i].messages) :
                       sessions'[i].messages[n] = sessions[i].messages[n]]_vars

\* a session grew by a turn's two messages and then by a direct append
C24_Witness ==
    /\ last.op = "append" /\ last.body = <<TRUE>>
    /\ last.session_id \in DOMAIN sessions
    /\ Len(Messages(last.session_id)) >= 3
    /\ \E t \in TurnIds : /\ turn[t].session_id = last.session_id
                          /\ turn[t].status = 200
                          /\ turn[t].message_count = Len(Messages(last.session_id)) - 1

\* ---- C25
\* C25: when the reply of a turn arrives and the turn's session id is not in
\* the store (it was deleted while the provider call was in flight), nothing
\* is appended, the id stays out of the store, and the turn answers success
\* with the reply text and message_count 0.
C25_ReplyAfterDeleteIsDropped ==
    [][\A t \in TurnIds, content \in ReplyTexts :
          (ChatReturn(t, content) /\ turn[t].session_id \notin DOMAIN sessions)
              => /\ sessions' = sessions
                 /\ turn'[t].pc = "done"
                 /\ turn'[t].status = 200
                 /\ turn'[t].response = strip(content)
                 /\ turn'[t].session_id = turn[t].session_id
                 /\ turn'[t].message_count = 0]_vars

\* a turn answered success with message_count 0, its session deleted and
\* absent
C25_Witness ==
    /\ last.op = "delete" /\ last.status = 204
    /\ last.session_id \notin DOMAIN sessions
    /\ \E t \in TurnIds : /\ turn[t].pc = "done" /\ turn[t].status = 200
                          /\ turn[t].session_id = last.session_id
                          /\ turn[t].message_count = 0
                          /\ turn[t].response = <<"r">>

\* ---- C26
\* C26: a reply is appended only to the session its turn put its user message
\* in: when the session now at the turn's id does not begin with the
\* transcript the turn sent (the id was deleted and created again while the
\* turn waited), the reply is not appended to it.
C26_NoReplyIntoLaterSession ==
    [][\A t \in TurnIds, content \in ReplyTexts :
          (/\ ChatReturn(t, content)
           /\ turn[t].session_id \in DOMAIN sessions
           /\ ~Intact(t))
              => sessions' = sessions]_vars

\* ---- C27
\* C27: under the HTTP operations every session holds at most one system
\* message, which is then its first message, and while an id stays in the
\* store no step adds, moves or replaces a system message of its session.
C27_OneSystemMessageFirst ==
    /\ [](\A i \in DOMAIN sessions :
             \A n \in 2..Len(Messages(i)) : Messages(i)[n].role # SYSTEM)
    /\ [][\A i \in AllIds :
             (i \in DOMAIN sessions /\ i \in DOMAIN sessions')
                 => /\ SelectSeq(sessions'[i].messages, IsSystemMessage) =
                          SelectSeq(sessions[i].messages, IsSystemMessage)
                    /\ sessions'[i].messages[1] = sessions[i].messages[1]]_vars

\* a session seeded at its creation went through two turns and begins with
\* its one system message; another, created without a prompt, has none
C27_Witness ==
    /\ \E i \in DOMAIN sessions :
          /\ Len(Messages(i)) >= 3
          /\ Messages(i)[1].role = SYSTEM
          /\ \A t \in TurnIds : turn[t].session_id = i /\ turn[t].pc # "idle"
    /\ \E t \in TurnIds : turn[t].pc = "done" /\ turn[t].status = 200
====
